---- MODULE Spec2Model ----
(***************************************************************************)
(* Model of rs-slowquery-digest: the slow-query log segmenter/parser       *)
(* (parser.rs), the fingerprinter (fingerprint.rs), the aggregation loop   *)
(* (aggregator.rs), the report finalizer (report.rs) and the way main.rs   *)
(* chains the input sources.                                               *)
(*                                                                         *)
(* Text is a sequence of tokens.  A token is a single character ("A",     *)
(* " ", "1", "'" ...) or a lexeme that stands for a fixed run of          *)
(* characters the code only ever tests as a whole ("User@Host:",          *)
(* "Query_time:", ...).  BigDigits stands for a run of 400 nines: it       *)
(* matches \d+ and [\d\.]+, overflows u64 and parses to f64 infinity.      *)
(* f64 seconds are kept in tenths (1.5 s is 15); INF is f64 infinity and   *)
(* F64_MAX is f64::MAX.                                                    *)
(***************************************************************************)
EXTENDS Integers, Sequences, FiniteSets, TLC

\* ------------------------------------------------------------------ bounds
MaxLines == 4        \* lines read over the whole run
MaxRecords == 3      \* records fed to aggregate (SpecAggregate)
MaxLimit == 3        \* largest limit handed to prepare_report_items (SpecReport)
MaxGroups == 3       \* groups in a drawn accumulator map (SpecReport)
MaxSamples == 10     \* samples in a drawn sample list (SpecPercentile)
MaxPieces == 4       \* pieces of a drawn SQL text (SpecFingerprint)

\* --------------------------------------------------------------- constants
F64_MAX == 1000000
INF == F64_MAX + 1

\* ------------------------------------------------------------- characters
NL == "\n"
BigDigits == "9{400}"
Digits == <<"0", "1", "2", "3", "4", "5", "6", "7", "8", "9">>
UpperCase == <<"A", "B", "E", "S", "U">>
LowerCase == <<"a", "b", "e", "s", "u">>

Range(f) == {f[i] : i \in DOMAIN f}

IsSpace(c) == c \in {" ", NL, "\t"}
IsDigit(c) == c \in Range(Digits) \cup {BigDigits}
IsLetter(c) == c \in Range(UpperCase) \cup Range(LowerCase)
IsWord(c) == IsDigit(c) \/ IsLetter(c) \/ c = "_"

DigitVal(c) == CHOOSE i \in 0..9 : Digits[i + 1] = c

\* --------------------------------------------------------- str operations
RECURSIVE trim_start(_)
trim_start(s) ==
    IF s # <<>> /\ IsSpace(Head(s)) THEN trim_start(Tail(s)) ELSE s

RECURSIVE trim_end(_)
trim_end(s) ==
    IF s # <<>> /\ IsSpace(s[Len(s)]) THEN trim_end(SubSeq(s, 1, Len(s) - 1)) ELSE s

trim(s) == trim_end(trim_start(s))

starts_with(s, p) == Len(s) >= Len(p) /\ SubSeq(s, 1, Len(p)) = p

\* Index of the first token of s at or after i that is c, 0 when there is none.
RECURSIVE find_from(_, _, _)
find_from(s, c, i) ==
    IF i > Len(s) THEN 0 ELSE IF s[i] = c THEN i ELSE find_from(s, c, i + 1)

\* str::lines: split at "\n"; a final "\n" opens no further line.
RECURSIVE lines(_)
lines(s) ==
    IF s = <<>> THEN <<>>
    ELSE LET i == find_from(s, NL, 1)
         IN  IF i = 0 THEN <<s>>
             ELSE <<SubSeq(s, 1, i - 1)>> \o lines(SubSeq(s, i + 1, Len(s)))

\* [&str]::join
RECURSIVE join(_, _)
join(ls, sep) ==
    IF ls = <<>> THEN <<>>
    ELSE IF Len(ls) = 1 THEN ls[1]
    ELSE ls[1] \o sep \o join(Tail(ls), sep)

\* ------------------------------------------------------- number parsing
RECURSIVE IntVal(_)
IntVal(ds) ==
    IF ds = <<>> THEN 0 ELSE 10 * IntVal(SubSeq(ds, 1, Len(ds) - 1)) + DigitVal(ds[Len(ds)])

\* str::parse::<f64> of a capture of [\d\.]+ : Some(value in tenths) or None.
\* Digits with at most one "." and at least one digit; a value beyond
\* f64::MAX parses to infinity.  One fractional digit is kept.
parse_f64(txt) ==
    LET dot == find_from(txt, ".", 1)
        ip == IF dot = 0 THEN txt ELSE SubSeq(txt, 1, dot - 1)
        fp == IF dot = 0 THEN <<>> ELSE SubSeq(txt, dot + 1, Len(txt))
        ok == /\ \A i \in 1..Len(ip) : IsDigit(ip[i])
              /\ \A i \in 1..Len(fp) : IsDigit(fp[i])
              /\ Len(ip) + Len(fp) >= 1
    IN  IF ~ok THEN <<>>
        ELSE IF \E i \in 1..Len(ip) : ip[i] = BigDigits THEN <<INF>>
        ELSE <<10 * IntVal(ip)
               + (IF fp = <<>> THEN 0 ELSE IF fp[1] = BigDigits THEN 9 ELSE DigitVal(fp[1]))>>

\* str::parse::<u64> of a capture of \d+ : Some(value) or None on overflow.
parse_u64(txt) ==
    IF txt = <<>> \/ \E i \in 1..Len(txt) : ~IsDigit(txt[i]) THEN <<>>
    ELSE IF \E i \in 1..Len(txt) : txt[i] = BigDigits THEN <<>>
    ELSE <<IntVal(txt)>>

\* Option::unwrap_or / Result::unwrap_or
unwrap_or(opt, d) == IF opt = <<>> THEN d ELSE opt[1]

\* ------------------------------------------------------------ parser.rs
Stamp1 == "2023-10-27T10:00:00Z"
Stamp2 == "2023-10-27T10:00:05Z"

\* DateTime::parse_from_rfc3339(..).with_timezone(&Utc): Some(instant) or None.
parse_from_rfc3339(time_str) ==
    IF time_str = <<Stamp1>> THEN <<1>>
    ELSE IF time_str = <<Stamp2>> THEN <<2>>
    ELSE <<>>

\* RE_HEADER_USER  ^# User@Host: (.*)   Some(capture 1) or None
re_header_user(t) ==
    LET p == <<"#", " ", "User@Host:", " ">>
    IN  IF starts_with(t, p) THEN <<SubSeq(t, Len(p) + 1, Len(t))>> ELSE <<>>

\* RE_HEADER_TIME  ^# Time: (.*)   Some(capture 1) or None
re_header_time(t) ==
    LET p == <<"#", " ", "Time:", " ">>
    IN  IF starts_with(t, p) THEN <<SubSeq(t, Len(p) + 1, Len(t))>> ELSE <<>>

\* \s* from i: the first index at or after i that holds no whitespace.
RECURSIVE skip_ws(_, _)
skip_ws(s, i) ==
    IF i <= Len(s) /\ IsSpace(s[i]) THEN skip_ws(s, i + 1) ELSE i

\* [\d\.]+ (dot = TRUE) or \d+ (dot = FALSE) from i: the index after the run.
RECURSIVE run_end(_, _, _)
run_end(s, i, dot) ==
    IF i <= Len(s) /\ (IsDigit(s[i]) \/ (dot /\ s[i] = ".")) THEN run_end(s, i + 1, dot) ELSE i

\* "<key> \s*(<run>)" at i: <<first, after>> of the capture, <<>> when it fails.
metrics_field(s, i, key, dot) ==
    IF i > 0 /\ i + 1 <= Len(s) /\ s[i] = key /\ s[i + 1] = " "
       /\ run_end(s, skip_ws(s, i + 2), dot) > skip_ws(s, i + 2)
    THEN <<skip_ws(s, i + 2), run_end(s, skip_ws(s, i + 2), dot)>>
    ELSE <<>>

\* " \s*" between two fields, from i: the index after it, 0 when it fails.
metrics_gap(s, i) ==
    IF i <= Len(s) /\ s[i] = " " THEN skip_ws(s, i + 1) ELSE 0

MetricsKeys == <<"Query_time:", "Lock_time:", "Rows_sent:", "Rows_examined:">>

RECURSIVE metrics_from(_, _, _)

\* Field k matched with the span f: its capture followed by the captures of
\* the fields after it, <<>> when f or a later field fails.
metrics_rest(s, k, f) ==
    IF f = <<>> THEN <<>>
    ELSE IF k = Len(MetricsKeys) THEN <<SubSeq(s, f[1], f[2] - 1)>>
    ELSE IF metrics_from(s, metrics_gap(s, f[2]), k + 1) = <<>> THEN <<>>
    ELSE <<SubSeq(s, f[1], f[2] - 1)>> \o metrics_from(s, metrics_gap(s, f[2]), k + 1)

\* Fields k.. of RE_HEADER_METRICS matched at i (the time fields take [\d\.]+,
\* the row fields \d+): their captures, <<>> when no match.
metrics_from(s, i, k) == metrics_rest(s, k, metrics_field(s, i, MetricsKeys[k], k <= 2))

\* The four captures of RE_HEADER_METRICS matched at i, <<>> when no match.
metrics_at(s, i) == metrics_from(s, i, 1)

\* RE_HEADER_METRICS (unanchored): the captures of the leftmost match, or <<>>.
re_header_metrics(t) ==
    LET at == {i \in 1..Len(t) : t[i] = MetricsKeys[1] /\ metrics_at(t, i) # <<>>}
    IN  IF at = {} THEN <<>>
        ELSE metrics_at(t, CHOOSE i \in at : \A j \in at : i <= j)

BlockFields0 ==
    [query_time |-> 0, lock_time |-> 0, rows_sent |-> 0, rows_examined |-> 0,
     user_host |-> <<>>, timestamp |-> <<>>, sql_lines |-> <<>>]

\* parser.rs 64-67: the timestamp is set only when the text parses.
set_timestamp(acc, dt) == IF dt # <<>> THEN [acc EXCEPT !.timestamp = dt] ELSE acc

\* parser.rs 69-72: each capture is parsed on its own, 0 when it does not parse.
set_metrics(acc, caps) ==
    [acc EXCEPT !.query_time = unwrap_or(parse_f64(caps[1]), 0),
                !.lock_time = unwrap_or(parse_f64(caps[2]), 0),
                !.rows_sent = unwrap_or(parse_u64(caps[3]), 0),
                !.rows_examined = unwrap_or(parse_u64(caps[4]), 0)]

\* The if-chain of parse_block's loop (lines 60-79) on the trimmed line.
classify_line(acc, trimmed) ==
    IF re_header_user(trimmed) # <<>>
        THEN [acc EXCEPT !.user_host = trim(re_header_user(trimmed)[1])]
    ELSE IF re_header_time(trimmed) # <<>>
        THEN set_timestamp(acc, parse_from_rfc3339(re_header_time(trimmed)[1]))
    ELSE IF re_header_metrics(trimmed) # <<>>
        THEN set_metrics(acc, re_header_metrics(trimmed))
    ELSE IF starts_with(trimmed, <<"#">>) THEN acc
    ELSE IF starts_with(trimmed, <<"SET", " ", "timestamp=">>) THEN acc
    ELSE [acc EXCEPT !.sql_lines = Append(@, trimmed)]

\* One turn of parse_block's "for line in block.lines()".
parse_line(acc, line) == classify_line(acc, trim(line))

RECURSIVE parse_lines(_, _)
parse_lines(acc, ls) ==
    IF ls = <<>> THEN acc ELSE parse_lines(parse_line(acc, Head(ls)), Tail(ls))

\* make_query with the test of lines 83-85 left out.
make_query_unchecked(acc, sql_text) ==
    <<[query_time |-> acc.query_time, lock_time |-> acc.lock_time,
       rows_sent |-> acc.rows_sent, rows_examined |-> acc.rows_examined,
       timestamp |-> acc.timestamp, user_host |-> acc.user_host,
       sql_text |-> sql_text]>>

\* parser.rs 82-95: None when the body is empty, else the Query.
make_query(acc, sql_text) ==
    IF sql_text = <<>> THEN <<>>
    ELSE <<[query_time |-> acc.query_time, lock_time |-> acc.lock_time,
            rows_sent |-> acc.rows_sent, rows_examined |-> acc.rows_examined,
            timestamp |-> acc.timestamp, user_host |-> acc.user_host,
            sql_text |-> sql_text]>>

\* sql_lines.join("\n").trim()
sql_body(acc) == trim(join(acc.sql_lines, <<NL>>))

finish_block(acc) == make_query(acc, sql_body(acc))

\* LogParser::parse_block: Some(Query) as <<query>>, None as <<>>.
parse_block(block) ==
    IF block = <<>> THEN <<>>
    ELSE finish_block(parse_lines(BlockFields0, lines(block)))

\* has_sql with the "continue" of lines 101-103 left out: any non-blank line counts.
has_sql_any_line(block) ==
    \E i \in 1..Len(lines(block)) : trim(lines(block)[i]) # <<>>

\* LogParser::has_sql
has_sql(block) ==
    \E i \in 1..Len(lines(block)) :
        LET trimmed == trim(lines(block)[i])
        IN  /\ ~(starts_with(trimmed, <<"#">>) \/ starts_with(trimmed, <<"SET", " ", "timestamp=">>))
            /\ trimmed # <<>>

\* The test of LogParser::next on the line just read.
is_header(read_buffer) ==
    LET trimmed == trim(read_buffer)
    IN  \/ starts_with(trimmed, <<"#", " ", "User@Host:">>)
        \/ starts_with(trimmed, <<"#", " ", "Time:">>)

\* ------------------------------------------------------- fingerprint.rs
\* RE_USE  (?i)use\s+\S+;  matched at the head of s: the index of its last
\* token, 0 when it does not match there.  \S+ is greedy, so the match ends
\* at the last ";" of the run of non-whitespace, which must not be its first.
use_end(s) ==
    IF ~(/\ Len(s) >= 6
         /\ s[1] \in {"u", "U"} /\ s[2] \in {"s", "S"} /\ s[3] \in {"e", "E"}
         /\ IsSpace(s[4]))
    THEN 0
    ELSE LET j == skip_ws(s, 4)
             k == CHOOSE n \in j..(Len(s) + 1) :
                      /\ \A m \in j..(n - 1) : ~IsSpace(s[m])
                      /\ (n > Len(s) \/ IsSpace(s[n]))
             semis == {m \in (j + 1)..(k - 1) : s[m] = ";"}
         IN  IF semis = {} THEN 0
             ELSE CHOOSE m \in semis : \A n \in semis : n <= m

\* step 0: re_use.replace_all(sql, "")
RECURSIVE remove_use(_)
remove_use(s) ==
    IF s = <<>> THEN <<>>
    ELSE IF use_end(s) > 0 THEN remove_use(SubSeq(s, use_end(s) + 1, Len(s)))
    ELSE <<Head(s)>> \o remove_use(Tail(s))

\* Index of the "/" that closes a block comment whose body starts at i, or 0.
RECURSIVE block_comment_end(_, _)
block_comment_end(s, i) ==
    IF i + 1 > Len(s) THEN 0
    ELSE IF s[i] = "*" /\ s[i + 1] = "/" THEN i + 1
    ELSE block_comment_end(s, i + 1)

\* RE_COMMENT  (?s:/\*.*?\*/)|--[^\n]*  matched at the head of s: the index of
\* its last token, 0 when it does not match there.
comment_end(s) ==
    IF Len(s) >= 2 /\ s[1] = "/" /\ s[2] = "*" /\ block_comment_end(s, 3) > 0
        THEN block_comment_end(s, 3)
    ELSE IF Len(s) >= 2 /\ s[1] = "-" /\ s[2] = "-"
        THEN (IF find_from(s, NL, 3) = 0 THEN Len(s) ELSE find_from(s, NL, 3) - 1)
    ELSE 0

\* step 1: re_comment.replace_all(&no_use, "")
RECURSIVE remove_comments(_)
remove_comments(s) ==
    IF s = <<>> THEN <<>>
    ELSE IF comment_end(s) > 0 THEN remove_comments(SubSeq(s, comment_end(s) + 1, Len(s)))
    ELSE <<Head(s)>> \o remove_comments(Tail(s))

\* RE_STRING  '(?:[^']|'')*'  with the opening quote already taken and the
\* body continuing at j: the index of the closing quote, 0 when there is none.
\* The star is greedy: a doubled quote is taken as body when the rest still
\* closes, otherwise its first quote closes the literal.
RECURSIVE string_end(_, _)
string_end(s, j) ==
    IF j > Len(s) THEN 0
    ELSE IF s[j] # "'" THEN string_end(s, j + 1)
    ELSE IF j + 1 <= Len(s) /\ s[j + 1] = "'" /\ string_end(s, j + 2) > 0
        THEN string_end(s, j + 2)
    ELSE j

\* step 2: re_string.replace_all(&no_comments, "?")
RECURSIVE replace_strings(_)
replace_strings(s) ==
    IF s = <<>> THEN <<>>
    ELSE IF s[1] = "'" /\ string_end(s, 2) > 0
        THEN <<"?">> \o replace_strings(SubSeq(s, string_end(s, 2) + 1, Len(s)))
    ELSE <<Head(s)>> \o replace_strings(Tail(s))

\* step 3: re_number.replace_all(&no_strings, "?") with RE_NUMBER \b\d+\b,
\* scanning s from i.
RECURSIVE replace_numbers(_, _)
replace_numbers(s, i) ==
    IF i > Len(s) THEN <<>>
    ELSE IF /\ IsDigit(s[i])
            /\ (i = 1 \/ ~IsWord(s[i - 1]))
            /\ (run_end(s, i, FALSE) > Len(s) \/ ~IsWord(s[run_end(s, i, FALSE)]))
        THEN <<"?">> \o replace_numbers(s, run_end(s, i, FALSE))
    ELSE <<s[i]>> \o replace_numbers(s, i + 1)

\* step 4: re_whitespace.replace_all(&no_numbers, " ") with RE_WHITESPACE \s+
RECURSIVE collapse_whitespace(_)
collapse_whitespace(s) ==
    IF s = <<>> THEN <<>>
    ELSE IF IsSpace(s[1])
        THEN <<" ">> \o collapse_whitespace(SubSeq(s, skip_ws(s, 1), Len(s)))
    ELSE <<Head(s)>> \o collapse_whitespace(Tail(s))

\* str::to_lowercase
to_lowercase(s) ==
    [i \in 1..Len(s) |->
        IF s[i] \in Range(UpperCase)
        THEN LowerCase[CHOOSE k \in 1..Len(UpperCase) : UpperCase[k] = s[i]]
        ELSE s[i]]

fingerprint(sql) ==
    LET no_use == remove_use(sql)
        no_comments == remove_comments(no_use)
        no_strings == replace_strings(no_comments)
        no_numbers == replace_numbers(no_strings, 1)
        normalized == trim(collapse_whitespace(no_numbers))
    IN  to_lowercase(normalized)

\* ---------------------------------------------------------- aggregator.rs
\* f64 addition on the modelled values: infinity absorbs, finite sums of the
\* model stay far below f64::MAX.
f64_add(a, b) == IF a = INF \/ b = INF THEN INF ELSE a + b

\* QueryStats::default
QueryStatsDefault ==
    [count |-> 0, total_time |-> 0, min_time |-> F64_MAX, max_time |-> 0,
     total_lock_time |-> 0, total_rows_sent |-> 0, total_rows_examined |-> 0,
     example_query |-> <<>>, all_query_times |-> <<>>,
     first_seen |-> <<>>, last_seen |-> <<>>, worst_example_query |-> <<>>]

\* The loop body with the test of line 73 left out: the example is overwritten.
update_stats_last_example(stats, query) ==
    [count |-> stats.count + 1,
     total_time |-> f64_add(stats.total_time, query.query_time),
     min_time |-> IF query.query_time < stats.min_time THEN query.query_time ELSE stats.min_time,
     max_time |-> IF query.query_time > stats.max_time THEN query.query_time ELSE stats.max_time,
     worst_example_query |->
         IF query.query_time > stats.max_time THEN query.sql_text ELSE stats.worst_example_query,
     total_lock_time |-> f64_add(stats.total_lock_time, query.lock_time),
     total_rows_sent |-> stats.total_rows_sent + query.rows_sent,
     total_rows_examined |-> stats.total_rows_examined + query.rows_examined,
     all_query_times |-> Append(stats.all_query_times, query.query_time),
     first_seen |->
         IF query.timestamp # <<>> /\ (stats.first_seen = <<>> \/ query.timestamp[1] < stats.first_seen[1])
         THEN query.timestamp ELSE stats.first_seen,
     last_seen |->
         IF query.timestamp # <<>> /\ (stats.last_seen = <<>> \/ query.timestamp[1] > stats.last_seen[1])
         THEN query.timestamp ELSE stats.last_seen,
     example_query |-> query.sql_text]

\* The body of aggregate's for loop (lines 50-75) on the accumulator of the
\* record's fingerprint.
update_stats(stats, query) ==
    [count |-> stats.count + 1,
     total_time |-> f64_add(stats.total_time, query.query_time),
     min_time |-> IF query.query_time < stats.min_time THEN query.query_time ELSE stats.min_time,
     max_time |-> IF query.query_time > stats.max_time THEN query.query_time ELSE stats.max_time,
     worst_example_query |->
         IF query.query_time > stats.max_time THEN query.sql_text ELSE stats.worst_example_query,
     total_lock_time |-> f64_add(stats.total_lock_time, query.lock_time),
     total_rows_sent |-> stats.total_rows_sent + query.rows_sent,
     total_rows_examined |-> stats.total_rows_examined + query.rows_examined,
     all_query_times |-> Append(stats.all_query_times, query.query_time),
     first_seen |->
         IF query.timestamp # <<>> /\ (stats.first_seen = <<>> \/ query.timestamp[1] < stats.first_seen[1])
         THEN query.timestamp ELSE stats.first_seen,
     last_seen |->
         IF query.timestamp # <<>> /\ (stats.last_seen = <<>> \/ query.timestamp[1] > stats.last_seen[1])
         THEN query.timestamp ELSE stats.last_seen,
     example_query |-> IF stats.example_query = <<>> THEN query.sql_text ELSE stats.example_query]

\* aggregate_one with entry(fp).or_default() replaced by a fresh accumulator.
aggregate_one_fresh(map, query) ==
    LET fp == fingerprint(query.sql_text)
    IN  [f \in DOMAIN map \cup {fp} |->
            IF f = fp THEN update_stats(QueryStatsDefault, query) ELSE map[f]]

\* stats_map.entry(fp).or_default() followed by the loop body.
aggregate_one(map, query) ==
    LET fp == fingerprint(query.sql_text)
        stats == IF fp \in DOMAIN map THEN map[fp] ELSE QueryStatsDefault
    IN  [f \in DOMAIN map \cup {fp} |-> IF f = fp THEN update_stats(stats, query) ELSE map[f]]

\* -------------------------------------------------------------- report.rs
\* (x as f64 * p).ceil() as usize, p given in hundredths; the cast of a
\* negative value saturates at 0.
ceil_as_usize(n, pct) ==
    LET c == -((-(n * pct)) \div 100)
    IN  IF c < 0 THEN 0 ELSE c

\* percentile with line 270 (the step to a zero-based offset) left out.
percentile_one_based(times, pct) ==
    IF times = <<>> THEN 0
    ELSE LET idx == ceil_as_usize(Len(times), pct)
         IN  times[(IF idx < Len(times) - 1 THEN idx ELSE Len(times) - 1) + 1]

\* percentile(times, p): times[i] of the code is times[i + 1] here.
percentile(times, pct) ==
    IF times = <<>> THEN 0
    ELSE LET idx0 == ceil_as_usize(Len(times), pct)
             idx == IF idx0 = 0 THEN 0 ELSE idx0 - 1
         IN  times[(IF idx < Len(times) - 1 THEN idx ELSE Len(times) - 1) + 1]

\* slice::sort_by on <<key, value>> pairs, ascending by key and stable:
\* insert x after the last element whose key is not greater.
RECURSIVE insert_sorted(_, _)
insert_sorted(v, x) ==
    IF v = <<>> THEN <<x>>
    ELSE IF v[Len(v)][1] <= x[1] THEN Append(v, x)
    ELSE Append(insert_sorted(SubSeq(v, 1, Len(v) - 1), x), v[Len(v)])

RECURSIVE sort_by(_)
sort_by(v) ==
    IF v = <<>> THEN <<>>
    ELSE insert_sorted(sort_by(SubSeq(v, 1, Len(v) - 1)), v[Len(v)])

\* all_query_times.sort_by(|a, b| a.partial_cmp(b)...)
sort_times(times) ==
    LET s == sort_by([i \in 1..Len(times) |-> <<times[i], times[i]>>])
    IN  [i \in 1..Len(times) |-> s[i][2]]

\* The sort of line 83 with a and b exchanged: ascending by total_time.
sort_by_total_time_asc(stats_vec) ==
    LET s == sort_by([i \in 1..Len(stats_vec) |-> <<stats_vec[i][2].total_time, stats_vec[i]>>])
    IN  [i \in 1..Len(stats_vec) |-> s[i][2]]

\* stats_vec.sort_by(|a, b| b.1.total_time.partial_cmp(&a.1.total_time)...):
\* descending by total_time, stable.
sort_by_total_time_desc(stats_vec) ==
    LET s == sort_by([i \in 1..Len(stats_vec) |-> <<-stats_vec[i][2].total_time, stats_vec[i]>>])
    IN  [i \in 1..Len(stats_vec) |-> s[i][2]]

\* The closure of prepare_report_items (lines 85-133) for position i (from 0).
\* mean_time, mean_lock_time and ratio are kept as <<numerator, denominator>>;
\* time_range is kept as the two instants, its rendering is left out.
report_item(i, fp, stat) ==
    LET times == sort_times(stat.all_query_times)
    IN  [rank |-> i + 1,
         query_id |-> <<"md5", fp>>,
         count |-> stat.count,
         total_time |-> stat.total_time,
         mean_time |-> IF stat.count > 0 THEN <<stat.total_time, stat.count>> ELSE <<0, 1>>,
         p95 |-> percentile(times, 95),
         p99 |-> percentile(times, 99),
         total_lock_time |-> stat.total_lock_time,
         mean_lock_time |-> IF stat.count > 0 THEN <<stat.total_lock_time, stat.count>> ELSE <<0, 1>>,
         rows_sent |-> stat.total_rows_sent,
         rows_examined |-> stat.total_rows_examined,
         ratio |-> IF stat.total_rows_sent > 0
                   THEN <<stat.total_rows_examined, stat.total_rows_sent>> ELSE <<0, 1>>,
         time_range |-> IF stat.first_seen # <<>> /\ stat.last_seen # <<>>
                        THEN <<stat.first_seen[1], stat.last_seen[1]>> ELSE <<>>,
         example_query |-> stat.example_query,
         worst_example_query |-> stat.worst_example_query,
         normalized_query |-> fp]

\* prepare_report_items on the map as the vector stats.into_iter() yields it.
prepare_report_items(stats_vec, limit) ==
    LET sorted == sort_by_total_time_desc(stats_vec)
        n == IF limit < Len(sorted) THEN limit ELSE Len(sorted)
    IN  [i \in 1..n |-> report_item(i - 1, sorted[i][1], sorted[i][2])]

\* The orders in which HashMap::into_iter may yield the entries of map.
into_iter(map) ==
    {v \in [1..Cardinality(DOMAIN map) -> DOMAIN map] :
        \A i, j \in DOMAIN v : i # j => v[i] # v[j]}

\* ------------------------------------------------------------ the inputs
LineUser == <<"#", " ", "User@Host:", " ", "r", NL>>
LineTime == <<"#", " ", "Time:", " ", Stamp1, NL>>
LineMetrics ==
    <<"#", " ", "Query_time:", " ", "1", " ", "Lock_time:", " ", "0", " ",
      "Rows_sent:", " ", "1", " ", "Rows_examined:", " ", "2", NL>>
LineBareMetrics == SubSeq(LineMetrics, 3, Len(LineMetrics))
LineSetTimestamp == <<"SET", " ", "timestamp=", "1", ";", NL>>
LineBlank == <<" ", NL>>
LineSqlA == <<"A", " ", "1", NL>>
LineSqlB == <<" ", "a", " ", "2", NL>>
\* A line that is not valid UTF-8: read_line consumes it and returns Err.
LineInvalid == <<"\\xFF", NL>>

InputLines ==
    {LineUser, LineTime, LineMetrics, LineBareMetrics, LineBlank, LineSqlB}

\* ----------------------------------------------------------------- state
VARIABLES
    pc,             \* where main is: "next" (inside Flatten/LogParser::next),
                    \* "item" (aggregate's loop holds an item), "done"
    rd,             \* the reader of the current LogParser: "closed" (no parser),
                    \* "open", "eof" (read_line has returned Ok(0)), "broken"
    current_block,  \* LogParser.current_block
    item,           \* what LogParser::next returned to aggregate's loop
    stats_map,      \* aggregate's stats_map
    input,          \* history: per reader opened so far, the lines read from it
    consumed,       \* history: the records aggregate's loop body has run on
    call,           \* the arguments of the function applied (function specifications)
    ret             \* its result

vars == <<pc, rd, current_block, item, stats_map, input, consumed, call, ret>>

NoItem == [tag |-> "None", query |-> <<>>]
OkItem(q) == [tag |-> "Ok", query |-> <<q>>]
ErrItem == [tag |-> "Err", query |-> <<>>]

RECURSIVE SumLen(_)
SumLen(ss) == IF ss = <<>> THEN 0 ELSE Len(Head(ss)) + SumLen(Tail(ss))

\* Lines read so far plus readers opened after the first.
Budget == SumLen(input) + (IF Len(input) > 1 THEN Len(input) - 1 ELSE 0)

Read(line) == [input EXCEPT ![Len(input)] = Append(@, line)]

\* main.rs 44-64 up to the call of aggregate: no parser pulled yet, empty map.
Init ==
    /\ pc = "next"
    /\ rd = "closed"
    /\ current_block = <<>>
    /\ item = NoItem
    /\ stats_map = <<>>
    /\ input = <<>>
    /\ consumed = <<>>
    /\ call = <<>>
    /\ ret = <<>>

\* Flatten::next pulls the next reader: parse_log builds a fresh LogParser.
NextReader ==
    /\ pc = "next" /\ rd = "closed"
    /\ Budget < MaxLines
    /\ rd' = "open"
    /\ current_block' = <<>>
    /\ input' = Append(input, <<>>)
    /\ UNCHANGED <<pc, item, stats_map, consumed, call, ret>>

\* Flatten::next finds no further reader: aggregate's loop ends, it returns stats_map.
NoMoreReaders ==
    /\ pc = "next" /\ rd = "closed"
    /\ pc' = "done"
    /\ UNCHANGED <<rd, current_block, item, stats_map, input, consumed, call, ret>>

\* One turn of the loop of LogParser::next in which read_line returns Ok(n > 0).
ReadLine(read_buffer) ==
    /\ pc = "next" /\ rd = "open"
    /\ Budget < MaxLines
    /\ input' = Read(read_buffer)
    /\ IF is_header(read_buffer) /\ has_sql(current_block)
       THEN /\ current_block' = read_buffer
            /\ \E q \in {parse_block(current_block)} :
                 IF q # <<>>
                 THEN item' = OkItem(q[1]) /\ pc' = "item"
                 ELSE UNCHANGED <<item, pc>>
       ELSE /\ current_block' = current_block \o read_buffer
            /\ UNCHANGED <<item, pc>>
    /\ UNCHANGED <<rd, stats_map, consumed, call, ret>>

\* ReadEof with lines 120-127 left out: at end of input the block
\* accumulated so far is thrown away and None is returned.
ReadEof_drop_block ==
    /\ pc = "next" /\ rd \in {"open", "eof"}
    /\ current_block' = <<>>
    /\ rd' = "closed"
    /\ UNCHANGED <<item, pc, stats_map, input, consumed, call, ret>>

\* One turn in which read_line returns Ok(0).
ReadEof ==
    /\ pc = "next" /\ rd \in {"open", "eof"}
    /\ current_block' = <<>>
    /\ \E q \in {IF current_block # <<>> THEN parse_block(current_block) ELSE <<>>} :
         IF q # <<>>
         THEN /\ item' = OkItem(q[1])
              /\ pc' = "item"
              /\ rd' = "eof"
         ELSE /\ rd' = "closed"
              /\ UNCHANGED <<item, pc>>
    /\ UNCHANGED <<stats_map, input, consumed, call, ret>>

\* ReadErrLine with the block accumulated so far thrown away.
ReadErrLine_drop_block ==
    /\ pc = "next" /\ rd = "open"
    /\ Budget < MaxLines
    /\ input' = Read(LineInvalid)
    /\ item' = ErrItem
    /\ pc' = "item"
    /\ current_block' = <<>>
    /\ UNCHANGED <<rd, stats_map, consumed, call, ret>>

\* One turn in which read_line returns Err after consuming a line (a line that
\* is not UTF-8): next returns Some(Err).
ReadErrLine ==
    /\ pc = "next" /\ rd = "open"
    /\ Budget < MaxLines
    /\ input' = Read(LineInvalid)
    /\ item' = ErrItem
    /\ pc' = "item"
    /\ UNCHANGED <<rd, current_block, stats_map, consumed, call, ret>>

\* One turn in which read_line returns Err and the reader makes no progress:
\* the path names a directory, which File::open opens and whose every read
\* fails with EISDIR, the first one and all later ones.
ReadErrStuck ==
    /\ pc = "next"
    /\ \/ rd = "open" /\ input[Len(input)] = <<>>
       \/ rd = "broken"
    /\ rd' = "broken"
    /\ item' = ErrItem
    /\ pc' = "item"
    /\ UNCHANGED <<current_block, stats_map, input, consumed, call, ret>>

\* aggregate's loop body on an Ok item (queries.flatten() yields the record).
AggregateOk ==
    /\ pc = "item" /\ item.tag = "Ok"
    /\ stats_map' = aggregate_one(stats_map, item.query[1])
    /\ consumed' = Append(consumed, item.query[1])
    /\ item' = NoItem
    /\ pc' = "next"
    /\ UNCHANGED <<rd, current_block, input, call, ret>>

\* queries.flatten() on an Err item: Result's iterator is empty, the loop body
\* does not run and the next item is pulled.
AggregateErr ==
    /\ pc = "item" /\ item.tag = "Err"
    /\ item' = NoItem
    /\ pc' = "next"
    /\ UNCHANGED <<rd, current_block, stats_map, input, consumed, call, ret>>

Next ==
    \/ NextReader
    \/ NoMoreReaders
    \/ \E line \in InputLines : ReadLine(line)
    \/ ReadEof
    \/ ReadErrLine
    \/ ReadErrStuck
    \/ AggregateOk
    \/ AggregateErr

Spec == Init /\ [][Next]_vars

\* The steps of Flatten::next and LogParser::next, taken while aggregate's
\* loop asks for the next item.
ParserStep ==
    \/ NextReader
    \/ NoMoreReaders
    \/ \E line \in InputLines : ReadLine(line)
    \/ ReadEof
    \/ ReadErrLine
    \/ ReadErrStuck

\* main is one thread that runs until aggregate returns: the loop body runs on
\* the item it holds, and a pending call of next takes a step.  The second and
\* the third conjunct are WF_vars(AggregateOk) and WF_vars(ParserStep) with
\* ENABLED written out: AggregateOk can change the state exactly when the loop
\* holds an Ok item, ParserStep exactly when pc = "next".
Fairness ==
    /\ WF_vars(AggregateErr)
    /\ []<>~(pc = "item" /\ item.tag = "Ok") \/ []<><<AggregateOk>>_vars
    /\ []<>(pc # "next") \/ []<><<ParserStep>>_vars

FairSpec == Spec /\ Fairness

\* ------------------------------------------- aggregate on any record stream
\* aggregate takes any iterator of Result<Query>.  The records fed here are
\* the ones parse_block builds from a metrics line and one line of SQL.
metrics_line(query_time) ==
    <<"#", " ", "Query_time:", " ">> \o query_time
        \o <<" ", "Lock_time:", " ", "0", " ", "Rows_sent:", " ", "1", " ",
             "Rows_examined:", " ", "2", NL>>

TimeTexts == {<<"0">>, <<"0", ".", "1">>, <<"0", ".", "5">>, <<BigDigits>>}

SqlTexts ==
    {LineTime \o LineSqlA, LineSqlB, <<"B", NL>>, <<"'", "x", "'", NL>>}

Queries == {parse_block(metrics_line(t) \o sql)[1] : t \in TimeTexts, sql \in SqlTexts}

InitAggregate ==
    /\ pc = "next"
    /\ rd = "iter"
    /\ current_block = <<>>
    /\ item = NoItem
    /\ stats_map = <<>>
    /\ input = <<>>
    /\ consumed = <<>>
    /\ call = <<>>
    /\ ret = <<>>

\* queries.next() returns Some(Ok(query)).
IterOk(query) ==
    /\ pc = "next" /\ rd = "iter"
    /\ Len(consumed) < MaxRecords
    /\ item' = OkItem(query)
    /\ pc' = "item"
    /\ UNCHANGED <<rd, current_block, stats_map, input, consumed, call, ret>>

\* queries.next() returns Some(Err(e)).
IterErr ==
    /\ pc = "next" /\ rd = "iter"
    /\ item' = ErrItem
    /\ pc' = "item"
    /\ UNCHANGED <<rd, current_block, stats_map, input, consumed, call, ret>>

\* queries.next() returns None: aggregate returns stats_map.
IterNone ==
    /\ pc = "next" /\ rd = "iter"
    /\ pc' = "done"
    /\ UNCHANGED <<rd, current_block, item, stats_map, input, consumed, call, ret>>

NextAggregate ==
    \/ \E query \in Queries : IterOk(query)
    \/ IterErr
    \/ IterNone
    \/ AggregateOk
    \/ AggregateErr

SpecAggregate == InitAggregate /\ [][NextAggregate]_vars

\* ------------------------------------------ parse_block on a metrics block
\* The texts a metrics field is drawn from: well formed, matched by the
\* pattern but refused by str::parse, not matched by the pattern, and <<>>
\* for a field that is missing with its key.
FieldTexts ==
    <<{<<"1", ".", "5">>, <<"1", ".", "2", ".", "3">>, <<"a">>, <<>>},
      {<<"0", ".", "1">>, <<"1", ".", "2", ".", "3">>, <<"a">>, <<>>},
      {<<"3">>, <<BigDigits>>, <<"a">>, <<>>},
      {<<"7">>, <<BigDigits>>, <<"a">>, <<>>}>>

DrawnFields ==
    {<<a, b, c, d>> : a \in FieldTexts[1], b \in FieldTexts[2],
                      c \in FieldTexts[3], d \in FieldTexts[4]}

metrics_text(fs, k) == IF fs[k] = <<>> THEN <<>> ELSE <<" ", MetricsKeys[k], " ">> \o fs[k]

\* "# Query_time: .. Lock_time: .. Rows_sent: .. Rows_examined: ..", a
\* "SET timestamp=" line and one line of SQL.
MetricsBlock(fs) ==
    <<"#">> \o metrics_text(fs, 1) \o metrics_text(fs, 2) \o metrics_text(fs, 3)
        \o metrics_text(fs, 4) \o <<NL>> \o LineSetTimestamp \o LineSqlA

\* A block with an SQL body and no metrics line.
NoMetricsBlock == LineUser \o LineSetTimestamp \o LineSqlA

InitParse ==
    /\ pc = "call"
    /\ rd = "fn"
    /\ current_block = <<>>
    /\ item = NoItem
    /\ stats_map = <<>>
    /\ input = <<>>
    /\ consumed = <<>>
    /\ call \in {[fn |-> "parse_block", block |-> MetricsBlock(fs)] : fs \in DrawnFields}
                \cup {[fn |-> "parse_block", block |-> NoMetricsBlock]}
    /\ ret = <<>>

ParseBlock ==
    /\ pc = "call" /\ call.fn = "parse_block"
    /\ ret' = parse_block(call.block)
    /\ pc' = "done"
    /\ UNCHANGED <<rd, current_block, item, stats_map, input, consumed, call>>

NextParse == ParseBlock

SpecParse == InitParse /\ [][NextParse]_vars

\* ----------------------------------- prepare_report_items on a drawn map
\* The record of group g with the query time t: the SQL is g times "a".
group_query(g, t) ==
    parse_block(metrics_line(t) \o [i \in 1..g |-> "a"] \o <<NL>>)[1]

ReportQueries == {group_query(g, t) : g \in 1..MaxGroups, t \in {<<"0", ".", "5">>, <<"1">>}}

RECURSIVE aggregate_all(_, _)
aggregate_all(map, qs) ==
    IF qs = <<>> THEN map ELSE aggregate_all(aggregate_one(map, Head(qs)), Tail(qs))

\* The maps aggregate returns on up to MaxGroups of these records.
DrawnMaps ==
    {aggregate_all(<<>>, qs) : qs \in UNION {[1..n -> ReportQueries] : n \in 0..MaxGroups}}

InitReport ==
    /\ pc = "call"
    /\ rd = "fn"
    /\ current_block = <<>>
    /\ item = NoItem
    /\ stats_map = <<>>
    /\ input = <<>>
    /\ consumed = <<>>
    /\ \E stats \in DrawnMaps, limit \in 0..MaxLimit :
         \E order \in into_iter(stats) :
            call = [fn |-> "prepare_report_items", stats |-> stats,
                    stats_vec |-> [i \in DOMAIN order |-> <<order[i], stats[order[i]]>>],
                    limit |-> limit]
    /\ ret = <<>>

PrepareReportItems ==
    /\ pc = "call" /\ call.fn = "prepare_report_items"
    /\ ret' = prepare_report_items(call.stats_vec, call.limit)
    /\ pc' = "done"
    /\ UNCHANGED <<rd, current_block, item, stats_map, input, consumed, call>>

NextReport == PrepareReportItems

SpecReport == InitReport /\ [][NextReport]_vars

\* ------------------------------------------- percentile on drawn samples
\* Fractions in hundredths: below 0, 0, 0.5, 0.95, 0.99, 1.0 and above 1.
Fractions == {-50, 0, 50, 95, 99, 100, 150}

\* Sample lists of up to MaxSamples entries: ramps, runs of equal values and
\* lists out of order.
SampleLists ==
    {[i \in 1..n |-> (i * step) % modulus] :
        n \in 0..MaxSamples, step \in 1..3, modulus \in {1, 4, MaxSamples + 1}}

InitPercentile ==
    /\ pc = "call"
    /\ rd = "fn"
    /\ current_block = <<>>
    /\ item = NoItem
    /\ stats_map = <<>>
    /\ input = <<>>
    /\ consumed = <<>>
    /\ call \in {[fn |-> "percentile", samples |-> samples, pct |-> pct] :
                    samples \in SampleLists, pct \in Fractions}
    /\ ret = <<>>

\* report.rs 97-99: the samples are sorted, then percentile is applied.
Percentile ==
    /\ pc = "call" /\ call.fn = "percentile"
    /\ ret' = <<percentile(sort_times(call.samples), call.pct)>>
    /\ pc' = "done"
    /\ UNCHANGED <<rd, current_block, item, stats_map, input, consumed, call>>

NextPercentile == Percentile

SpecPercentile == InitPercentile /\ [][NextPercentile]_vars

\* ---------------------------------------------- fingerprint on drawn text
\* The pieces a text is drawn from: what each of the five patterns looks for.
Pieces ==
    {<<"-">>, <<"/", "*">>, <<"*", "/">>, <<"'">>, <<"1">>, <<"A">>, <<" ">>,
     <<NL>>, <<"U", "s", "E", " ", "a", ";">>}

RECURSIVE concat(_)
concat(ps) == IF ps = <<>> THEN <<>> ELSE Head(ps) \o concat(Tail(ps))

\* The texts of up to MaxPieces pieces.
DrawnTexts == {concat(ps) : ps \in UNION {[1..n -> Pieces] : n \in 0..MaxPieces}}

InitFingerprint ==
    /\ pc = "call"
    /\ rd = "fn"
    /\ current_block = <<>>
    /\ item = NoItem
    /\ stats_map = <<>>
    /\ input = <<>>
    /\ consumed = <<>>
    /\ call \in {[fn |-> "fingerprint", sql |-> sql] : sql \in DrawnTexts}
    /\ ret = <<>>

\* fingerprint applied to the text, and once more to its result.
Fingerprint ==
    /\ pc \in {"call", "again"} /\ call.fn = "fingerprint"
    /\ IF pc = "call"
       THEN ret' = <<fingerprint(call.sql)>> /\ pc' = "again"
       ELSE ret' = Append(ret, fingerprint(ret[1])) /\ pc' = "done"
    /\ UNCHANGED <<rd, current_block, item, stats_map, input, consumed, call>>

NextFingerprint == Fingerprint

SpecFingerprint == InitFingerprint /\ [][NextFingerprint]_vars

\* ----------------------------------------------------------------- claims
Min(S) == CHOOSE x \in S : \A y \in S : x <= y
Max(S) == CHOOSE x \in S : \A y \in S : y <= x

\* The consumed records whose fingerprint is f, as positions of consumed.
GroupOf(f) == {i \in 1..Len(consumed) : fingerprint(consumed[i].sql_text) = f}

RECURSIVE SumTimes(_)
SumTimes(ts) ==
    IF ts = <<>> THEN 0 ELSE f64_add(SumTimes(SubSeq(ts, 1, Len(ts) - 1)), ts[Len(ts)])

\* C1: after any records consumed, every accumulator's count is the number of
\* consumed records with its fingerprint, and the keys of the map are exactly
\* the fingerprints of the consumed records.
C1_GroupingCorrect ==
    /\ DOMAIN stats_map = {fingerprint(consumed[i].sql_text) : i \in 1..Len(consumed)}
    /\ \A f \in DOMAIN stats_map :
        /\ stats_map[f].count = Cardinality(GroupOf(f))
        /\ stats_map[f].count >= 1

C1_Witness ==
    \E f, g \in DOMAIN stats_map : f # g /\ stats_map[f].count = 2 /\ stats_map[g].count = 1

\* C2: for every group, the sample list has one entry per counted record,
\* every sample lies between min_time and max_time, min_time and max_time are
\* the smallest and the largest sample, and total_time is the samples' sum.
C2_Bounds ==
    \A f \in DOMAIN stats_map :
        LET st == stats_map[f]
            samples == Range(st.all_query_times)
        IN  /\ Len(st.all_query_times) = st.count
            /\ \A x \in samples : st.min_time <= x /\ x <= st.max_time
            /\ st.min_time = Min(samples)
            /\ st.max_time = Max(samples)
            /\ st.total_time = SumTimes(st.all_query_times)

\* C3: for every group, worst_example_query is the sql_text of the first
\* consumed record of the group whose query_time is the group's max_time,
\* and is not empty.
C3_WorstExample ==
    \A f \in DOMAIN stats_map :
        LET first == Min({i \in GroupOf(f) : consumed[i].query_time = stats_map[f].max_time})
        IN  /\ stats_map[f].worst_example_query = consumed[first].sql_text
            /\ stats_map[f].worst_example_query # <<>>

\* ------------------------------------------- the segmentation, as claimed
\* The lines a reader delivered (a line whose read failed is not delivered).
Delivered(ls) == SelectSeq(ls, LAMBDA l : l # LineInvalid)

BoundaryLine(l) ==
    \/ starts_with(trim(l), <<"#", " ", "User@Host:">>)
    \/ starts_with(trim(l), <<"#", " ", "Time:">>)

HashLine(l) == trim(l) # <<>> /\ trim(l)[1] = "#"

\* A line that is not blank, no "#" line and no "SET timestamp=" line.
ContentLine(l) ==
    /\ trim(l) # <<>>
    /\ ~HashLine(l)
    /\ ~starts_with(trim(l), <<"SET", " ", "timestamp=">>)

\* A content line that the metrics pattern does not match.
SqlLine(l) == ContentLine(l) /\ re_header_metrics(trim(l)) = <<>>

HasContent(b) == \E i \in 1..Len(b) : ContentLine(b[i])

\* Blocks of lines: a boundary line closes the block cur when cur holds a
\* content line and then starts the next block, any other line is appended.
RECURSIVE Segment(_, _, _)
Segment(ls, closed, cur) ==
    IF ls = <<>> THEN [closed |-> closed, open |-> cur]
    ELSE IF BoundaryLine(Head(ls)) /\ HasContent(cur)
        THEN Segment(Tail(ls), Append(closed, cur), <<Head(ls)>>)
    ELSE Segment(Tail(ls), closed, Append(cur, Head(ls)))

SegmentOf(s) == Segment(Delivered(input[s]), <<>>, <<>>)

\* Reader s has reported its end of input.
Exhausted(s) == s < Len(input) \/ rd \in {"eof", "closed"}

with_open(g, done) == IF done /\ g.open # <<>> THEN Append(g.closed, g.open) ELSE g.closed

\* The blocks of reader s that are closed, by a boundary line or by end of input.
ClosedBlocks(s) == with_open(SegmentOf(s), Exhausted(s))

RECURSIVE Flat(_)
Flat(b) == IF b = <<>> THEN <<>> ELSE Head(b) \o Flat(Tail(b))

RECURSIVE RecordsOf(_)
RecordsOf(blocks) ==
    IF blocks = <<>> THEN <<>> ELSE parse_block(Flat(Head(blocks))) \o RecordsOf(Tail(blocks))

RECURSIVE AllClosedBlocks(_)
AllClosedBlocks(s) == IF s = 0 THEN <<>> ELSE AllClosedBlocks(s - 1) \o ClosedBlocks(s)

\* The records LogParser::next has returned so far.
Emitted == consumed \o item.query

\* Chunks of lines cut before every line that starts a block (a boundary
\* line when boundary is TRUE, any "#" line otherwise) and follows a line of SQL.
StartsBlock(l, boundary) == IF boundary THEN BoundaryLine(l) ELSE HashLine(l)

RECURSIVE Chunks(_, _, _)
Chunks(ls, cur, boundary) ==
    IF ls = <<>> THEN (IF cur = <<>> THEN <<>> ELSE <<cur>>)
    ELSE IF cur # <<>> /\ StartsBlock(Head(ls), boundary) /\ SqlLine(cur[Len(cur)])
        THEN <<cur>> \o Chunks(Tail(ls), <<Head(ls)>>, boundary)
    ELSE Chunks(Tail(ls), Append(cur, Head(ls)), boundary)

\* Block b is lines that satisfy Ann, the first of them First, followed by
\* lines that satisfy Sql, at least one of each.
Shaped(b, First(_), Ann(_), Sql(_)) ==
    \E n \in 1..(Len(b) - 1) :
        /\ First(b[1])
        /\ \A i \in 1..n : Ann(b[i])
        /\ \A i \in (n + 1)..Len(b) : Sql(b[i])

BlocksToRecords(chunks) == [i \in 1..Len(chunks) |-> parse_block(Flat(chunks[i]))]

\* C4 as stated: an input of k blocks, each one or more annotation ("#")
\* lines followed by one or more content lines, yields exactly k records in
\* input order, each the record of its own block.
C4_AnnotatedBlocks ==
    LET chunks == Chunks(input[1], <<>>, FALSE)
    IN  (/\ Len(input) = 1 /\ rd = "closed"
         /\ input[1] = Delivered(input[1])
         /\ \A i \in 1..Len(chunks) : Shaped(chunks[i], HashLine, HashLine, SqlLine))
        => /\ Len(Emitted) = Len(chunks)
           /\ \A i \in 1..Len(chunks) : <<Emitted[i]>> = BlocksToRecords(chunks)[i]

\* The line read in this step, <<>> when the step reads none.
LineRead ==
    IF Len(input') = Len(input) /\ input' # input
       /\ input'[Len(input)][Len(input'[Len(input)])] # LineInvalid
    THEN <<input'[Len(input)][Len(input'[Len(input)])]>>
    ELSE <<>>

NothingEmitted == item' = item /\ pc' = pc

\* A boundary line closes the block exactly when the block holds a content
\* line: the block is parsed, the buffer restarts with the boundary line and
\* the record, if its body is not empty, is returned; otherwise the line is
\* appended and nothing is returned.
C4_BoundaryStep ==
    \A l \in Range(LineRead) :
        BoundaryLine(l) =>
            IF HasContent(lines(current_block))
            THEN /\ current_block' = l
                 /\ IF parse_block(current_block) # <<>>
                    THEN item' = OkItem(parse_block(current_block)[1]) /\ pc' = "item"
                    ELSE NothingEmitted
            ELSE /\ current_block' = current_block \o l
                 /\ NothingEmitted

C4_BlocksToRecords ==
    LET chunks == Chunks(input[1], <<>>, TRUE)
    IN  (/\ Len(input) = 1 /\ rd = "closed"
         /\ input[1] = Delivered(input[1])
         /\ \A i \in 1..Len(chunks) : Shaped(chunks[i], BoundaryLine, HashLine, SqlLine))
        => /\ Len(Emitted) = Len(chunks)
           /\ \A i \in 1..Len(chunks) : <<Emitted[i]>> = BlocksToRecords(chunks)[i]

\* C4 amended: a boundary line closes the current block exactly when the block
\* holds a content line (C4_BoundaryStep), and an input of k blocks, each a
\* boundary line, further "#" lines and then one or more content lines that
\* the metrics pattern does not match, yields exactly k records in input
\* order, each the record of its own block.
C4_BoundaryBlocks == [][C4_BoundaryStep]_vars /\ []C4_BlocksToRecords

\* Two blocks, the first closed by the boundary line of the second, both emitted.
C4_Witness ==
    /\ Len(input) = 1 /\ rd = "closed" /\ pc = "next"
    /\ input[1] = <<LineTime, LineSqlB, LineUser, LineSqlB>>
    /\ Len(consumed) = 2
    /\ consumed[1].timestamp = <<1>> /\ consumed[2].user_host = <<"r">>

\* C5: the run terminates, whatever the reads of the sources return.
C5_Terminates == <>(pc = "done")

\* The body of a block as claimed: its content lines, each verbatim (without
\* its line end), joined by newlines, the two ends of the whole trimmed.
verbatim(l) == IF l # <<>> /\ l[Len(l)] = NL THEN SubSeq(l, 1, Len(l) - 1) ELSE l

BodyLine(l) == ~HashLine(l) /\ ~starts_with(trim(l), <<"SET", " ", "timestamp=">>)
                /\ re_header_metrics(trim(l)) = <<>>

RECURSIVE VerbatimLines(_)
VerbatimLines(b) ==
    IF b = <<>> THEN <<>>
    ELSE (IF BodyLine(Head(b)) THEN <<verbatim(Head(b))>> ELSE <<>>) \o VerbatimLines(Tail(b))

Body(b) == trim(join(VerbatimLines(b), <<NL>>))

NonEmptyBodies(blocks) ==
    LET bodies == [i \in 1..Len(blocks) |-> Body(blocks[i])]
    IN  SelectSeq(bodies, LAMBDA x : x # <<>>)

\* C7: the sql_text of the records returned are the non-empty bodies of the
\* closed blocks, in input order.
C7_VerbatimBody ==
    [i \in 1..Len(Emitted) |-> Emitted[i].sql_text]
        = NonEmptyBodies(AllClosedBlocks(Len(input)))

RECURSIVE SumCounts(_)
SumCounts(fs) ==
    IF fs = {} THEN 0
    ELSE LET f == CHOOSE g \in fs : TRUE IN stats_map[f].count + SumCounts(fs \ {f})

\* C8: every record returned has a non-empty sql_text; the closed blocks with
\* an empty body yield no record (there are as many records as closed blocks
\* with a non-empty body), no error item (an error item comes from a failed
\* read only) and no count in any accumulator.
C8_EmptyBlocksDropped ==
    /\ \A i \in 1..Len(Emitted) : Emitted[i].sql_text # <<>>
    /\ Len(Emitted) = Len(NonEmptyBodies(AllClosedBlocks(Len(input))))
    /\ item.tag = "Err" =>
          \/ rd = "broken"
          \/ input[Len(input)][Len(input[Len(input)])] = LineInvalid
    /\ SumCounts(DOMAIN stats_map) = Len(consumed)

\* An empty block closed by a boundary line and one closed by end of input,
\* around a block that is emitted.
C8_Witness ==
    /\ pc = "done" /\ Len(input) = 1
    /\ input[1] = <<LineBareMetrics, LineUser, LineSqlB, LineTime>>
    /\ Len(consumed) = 1

\* ------------------------------------------------- parse_block, as claimed
\* A well-formed field: the value its text denotes (seconds in tenths).
WellFormed ==
    <<[t \in {<<"1", ".", "5">>} |-> 15], [t \in {<<"0", ".", "1">>} |-> 1],
      [t \in {<<"3">>} |-> 3], [t \in {<<"7">>} |-> 7]>>

Degraded(fs, k) == IF fs[k] \in DOMAIN WellFormed[k] THEN WellFormed[k][fs[k]] ELSE 0

\* C6: parse_block returns a record for every drawn block; each metrics field
\* of the record is the value of its text when the text is well formed and
\* zero when it is missing or malformed, whatever the other fields are; a
\* block without a metrics line gives four zeros.
C6_IndependentDegradation ==
    (pc = "done" /\ call.fn = "parse_block") =>
        /\ ret # <<>>
        /\ \A fs \in DrawnFields :
             call.block = MetricsBlock(fs) =>
                /\ ret[1].query_time = Degraded(fs, 1)
                /\ ret[1].lock_time = Degraded(fs, 2)
                /\ ret[1].rows_sent = Degraded(fs, 3)
                /\ ret[1].rows_examined = Degraded(fs, 4)
        /\ call.block = NoMetricsBlock =>
                /\ ret[1].query_time = 0 /\ ret[1].lock_time = 0
                /\ ret[1].rows_sent = 0 /\ ret[1].rows_examined = 0

\* ---------------------------------------- prepare_report_items, as claimed
\* C9: for a map of G groups and a limit L, prepare_report_items returns
\* min(L, G) items, each for a distinct fingerprint of the map with that
\* group's total_time; the item at position i (from 0) has rank i + 1;
\* total_time does not increase along the list; every group left out has a
\* total_time no greater than that of every group kept.
C9_TopGroups ==
    (pc = "done" /\ call.fn = "prepare_report_items") =>
        LET G == Cardinality(DOMAIN call.stats)
            kept == {ret[i].normalized_query : i \in 1..Len(ret)}
        IN  /\ Len(ret) = (IF call.limit < G THEN call.limit ELSE G)
            /\ kept \subseteq DOMAIN call.stats
            /\ Cardinality(kept) = Len(ret)
            /\ \A i \in 1..Len(ret) :
                 /\ ret[i].rank = i
                 /\ ret[i].total_time = call.stats[ret[i].normalized_query].total_time
            /\ \A i \in 1..(Len(ret) - 1) : ret[i].total_time >= ret[i + 1].total_time
            /\ \A f \in DOMAIN call.stats \ kept :
                 \A i \in 1..Len(ret) : call.stats[f].total_time <= ret[i].total_time

\* Three groups handed over with the largest total last, two kept: the largest
\* and one of the two that tie below it.
C9_Witness ==
    /\ pc = "done" /\ call.fn = "prepare_report_items"
    /\ Len(call.stats_vec) = 3 /\ call.limit = 2 /\ Len(ret) = 2
    /\ call.stats_vec[1][2].total_time = call.stats_vec[2][2].total_time
    /\ call.stats_vec[2][2].total_time < call.stats_vec[3][2].total_time
    /\ ret[1].total_time > ret[2].total_time

\* ---------------------------------------------------- percentile, as claimed
\* The k-th smallest (k from 1) of the samples.
NthSmallest(samples, k) ==
    CHOOSE v \in Range(samples) :
        /\ Cardinality({i \in DOMAIN samples : samples[i] < v}) < k
        /\ k <= Cardinality({i \in DOMAIN samples : samples[i] <= v})

\* ceil(n * p) for p in hundredths.
CeilOf(n, pct) == CHOOSE c \in -(2 * n)..(2 * n) : 100 * c >= n * pct /\ 100 * (c - 1) < n * pct

\* min(max(ceil(n * p) - 1, 0), n - 1)
Offset(n, pct) == Min({Max({CeilOf(n, pct) - 1, 0}), n - 1})

\* C10: on n >= 1 samples in ascending order percentile returns the sample at
\* offset min(max(ceil(n * p) - 1, 0), n - 1); hence the largest sample for
\* p = 1.0, the only sample when n = 1, always one of the samples, and the
\* last of 10 samples for p = 0.95.
C10_NearestRank ==
    (pc = "done" /\ call.fn = "percentile" /\ call.samples # <<>>) =>
        LET n == Len(call.samples)
        IN  /\ ret[1] = NthSmallest(call.samples, Offset(n, call.pct) + 1)
            /\ call.pct = 100 => ret[1] = Max(Range(call.samples))
            /\ n = 1 => ret[1] = call.samples[1]
            /\ ret[1] \in Range(call.samples)
            /\ (n = 10 /\ call.pct = 95) => ret[1] = NthSmallest(call.samples, 10)

\* Ten different samples out of order, p = 0.95: the largest is returned.
C10_Witness ==
    /\ pc = "done" /\ call.fn = "percentile"
    /\ Len(call.samples) = 10 /\ call.pct = 95
    /\ Cardinality(Range(call.samples)) = 10
    /\ call.samples[10] # Max(Range(call.samples))
    /\ ret = <<Max(Range(call.samples))>>

\* -------------------------------------------------- fingerprint, as claimed
\* C11: fingerprint is idempotent: applied to its own result it returns that
\* result (the result holds nothing a second application would change).
C11_Idempotent ==
    (pc = "done" /\ call.fn = "fingerprint") => ret[2] = ret[1]

\* ------------------------------------------------ example_query, as claimed
\* C12: for every group, example_query is the sql_text of the first record
\* aggregated into the group, and no later record of the group changes it.
C12_FirstExample ==
    /\ [](\A f \in DOMAIN stats_map :
            stats_map[f].example_query = consumed[Min(GroupOf(f))].sql_text)
    /\ [][\A f \in DOMAIN stats_map :
            stats_map'[f].example_query = stats_map[f].example_query]_vars

\* A group of two records of different text, the second one the slower:
\* the example is the first text, the worst example the second.
C12_Witness ==
    \E f \in DOMAIN stats_map :
        /\ stats_map[f].count = 2
        /\ \E i, j \in GroupOf(f) :
             /\ i < j
             /\ consumed[i].sql_text # consumed[j].sql_text
             /\ consumed[i].query_time < consumed[j].query_time
             /\ stats_map[f].example_query = consumed[i].sql_text
             /\ stats_map[f].worst_example_query = consumed[j].sql_text

\* ------------------------------------------------- read failures, as claimed
\* A step that has next return an error item, a step that has aggregate
\* discard one, and what every step keeps.
C13_ErrStep ==
    /\ (pc = "next" /\ item'.tag = "Err") =>
          UNCHANGED <<current_block, stats_map, consumed>>
    /\ (pc = "item" /\ item.tag = "Err") =>
          pc' = "next" /\ UNCHANGED <<current_block, stats_map, consumed>>
    /\ Len(consumed') >= Len(consumed)
    /\ SubSeq(consumed', 1, Len(consumed)) = consumed
    /\ \A f \in DOMAIN stats_map :
          f \in DOMAIN stats_map' /\ stats_map'[f].count >= stats_map[f].count

FailedRead == \E s \in 1..Len(input) : \E i \in 1..Len(input[s]) : input[s][i] = LineInvalid

\* After a failed read the records returned are those of the blocks of the
\* lines read successfully, and every record consumed is counted.
C13_StillAggregated ==
    FailedRead =>
        /\ Emitted = RecordsOf(AllClosedBlocks(Len(input)))
        /\ SumCounts(DOMAIN stats_map) = Len(consumed)

\* C13: a failed read makes next return an error item and leaves the block
\* accumulated so far as it is; aggregate discards the item and goes on, no
\* accumulator is created or changed by it; the records aggregated before stay
\* aggregated; the lines read afterwards are segmented and aggregated as if
\* the failed line were absent.
C13_ErrorDiscarded == [][C13_ErrStep]_vars /\ []C13_StillAggregated

\* A record aggregated before the failed read and one made of the lines
\* around it: the block "# User@Host: r" / failed line / " a 2".
C13_Witness ==
    /\ pc = "done" /\ Len(input) = 1
    /\ input[1] = <<LineSqlB, LineUser, LineInvalid, LineSqlB>>
    /\ Len(consumed) = 2
    /\ consumed[2].user_host = <<"r">>

\* ------------------------------------------------ several sources, as claimed
\* The records a source yields when it is parsed alone.
RecordsAlone(s) == RecordsOf(with_open(SegmentOf(s), TRUE))

RECURSIVE RecordsInSourceOrder(_)
RecordsInSourceOrder(s) ==
    IF s = 0 THEN <<>> ELSE RecordsInSourceOrder(s - 1) \o RecordsAlone(s)

\* A step that opens the next source: the sources before it have given all
\* their records, the trailing block included, and the new parser starts
\* with an empty block.
C14_NextSource ==
    Len(input') > Len(input) =>
        /\ Emitted = RecordsInSourceOrder(Len(input))
        /\ current_block' = <<>>
        /\ Emitted' = Emitted

\* C14: with several sources, when the next source is opened the sources
\* before it have yielded all their records, their trailing blocks included,
\* and the new parser starts empty; when the run is done the records
\* aggregated are those each source yields when parsed alone, in source order
\* (no record holds lines of two sources).
C14_SourcesInTurn ==
    /\ [][C14_NextSource]_vars
    /\ []((pc = "done" /\ Len(input) >= 2) => consumed = RecordsInSourceOrder(Len(input)))

\* Two sources of one line of SQL each and no boundary line between them:
\* two records of one line, not one record of two lines.
C14_Witness ==
    /\ pc = "done"
    /\ input = <<(<<LineSqlB>>), <<LineSqlB>>>>
    /\ Len(consumed) = 2
    /\ consumed[1].sql_text = <<"a", " ", "2">>
    /\ consumed[2].sql_text = <<"a", " ", "2">>

====
